---- MODULE Spec2Model ----
(***************************************************************************)
(* Model of src/app.py: a Flask service that records time-stamped          *)
(* measurements in one SQLite table (SQLAlchemy model Measurement) and     *)
(* offers five routes: index, add_measurement_via_get, create_measurement, *)
(* list_measurements and delete_measurement.                               *)
(*                                                                         *)
(* Text is modelled as tuples of one-character strings, so that parsing    *)
(* (float, datetime.strptime) and formatting (strftime) are computed and   *)
(* not assumed.                                                            *)
(***************************************************************************)
EXTENDS Integers, Sequences, FiniteSets, TLC

\* ------------------------------------------------------------------------
\* Bounds of the model
\* ------------------------------------------------------------------------
\* Largest primary key the model lets the table hand out.
MaxId == 2
\* Number of request threads that can be inside delete_measurement at once.
NumThreads == 2

Threads == 1..NumThreads

\* ------------------------------------------------------------------------
\* Characters
\* ------------------------------------------------------------------------
DigitChars == <<"0", "1", "2", "3", "4", "5", "6", "7", "8", "9">>

IsDigit(c) == \E i \in 1..10 : DigitChars[i] = c

DigitVal(c) == (CHOOSE i \in 1..10 : DigitChars[i] = c) - 1

IsSpace(c) == c \in {" ", "\t"}

\* str.lower() on the letters that occur in the inputs
Lower(c) ==
    IF c = "T" THEN "t"
    ELSE IF c = "N" THEN "n"
    ELSE IF c = "A" THEN "a"
    ELSE IF c = "I" THEN "i"
    ELSE IF c = "F" THEN "f"
    ELSE c

LowerStr(s) == [i \in 1..Len(s) |-> Lower(s[i])]

AllDigits(s) == \A i \in 1..Len(s) : IsDigit(s[i])

RECURSIVE NumOf(_)
\* int() of a run of decimal digits (0 for the empty run)
NumOf(s) ==
    IF Len(s) = 0 THEN 0
    ELSE 10 * NumOf(SubSeq(s, 1, Len(s) - 1)) + DigitVal(s[Len(s)])

RECURSIVE Strip(_)
\* str.strip(): float() ignores leading and trailing whitespace
Strip(s) ==
    IF Len(s) = 0 THEN s
    ELSE IF IsSpace(s[1]) THEN Strip(Tail(s))
    ELSE IF IsSpace(s[Len(s)]) THEN Strip(SubSeq(s, 1, Len(s) - 1))
    ELSE s

\* ------------------------------------------------------------------------
\* Floating-point values.  k = "fin": the decimal m / 10^e, normalised so
\* that m has no trailing zero when e > 0; k = "nan"; k = "inf": sign in m;
\* k = "err": float() raised ValueError or TypeError.
\* ------------------------------------------------------------------------
Fl(k, m, e) == [k |-> k, m |-> m, e |-> e]

FloatError == Fl("err", 0, 0)

RECURSIVE NormFloat(_, _)
NormFloat(m, e) ==
    IF e > 0 /\ m % 10 = 0 THEN NormFloat(m \div 10, e - 1) ELSE Fl("fin", m, e)

\* index of the first "." in s, or 0
FirstDot(s) ==
    IF \E i \in 1..Len(s) : s[i] = "."
    THEN CHOOSE i \in 1..Len(s) : s[i] = "." /\ \A j \in 1..(i - 1) : s[j] # "."
    ELSE 0

\* FloatOfUnsigned with a lenient parse: text that is no number reads as 0.0
FloatOfUnsignedLenient(b, sign) ==
    LET low == LowerStr(b)
        dot == FirstDot(b)
        ip  == IF dot = 0 THEN b ELSE SubSeq(b, 1, dot - 1)
        fp  == IF dot = 0 THEN <<>> ELSE SubSeq(b, dot + 1, Len(b))
    IN  IF low = <<"n", "a", "n">> THEN Fl("nan", 0, 0)
        ELSE IF low = <<"i", "n", "f">> THEN Fl("inf", sign, 0)
        ELSE IF AllDigits(ip) /\ AllDigits(fp) /\ Len(ip) + Len(fp) >= 1
             THEN NormFloat(sign * NumOf(ip \o fp), Len(fp))
             ELSE Fl("fin", 0, 0)

\* float(str) on an unsigned body: digits [ "." digits ], "nan", "inf"
FloatOfUnsigned(b, sign) ==
    LET low == LowerStr(b)
        dot == FirstDot(b)
        ip  == IF dot = 0 THEN b ELSE SubSeq(b, 1, dot - 1)
        fp  == IF dot = 0 THEN <<>> ELSE SubSeq(b, dot + 1, Len(b))
    IN  IF low = <<"n", "a", "n">> THEN Fl("nan", 0, 0)
        ELSE IF low = <<"i", "n", "f">> THEN Fl("inf", sign, 0)
        ELSE IF AllDigits(ip) /\ AllDigits(fp) /\ Len(ip) + Len(fp) >= 1
             THEN NormFloat(sign * NumOf(ip \o fp), Len(fp))
             ELSE FloatError

\* float(str)
FloatOfStr(s) ==
    LET b == Strip(s)
    IN  IF Len(b) = 0 THEN FloatError
        ELSE IF b[1] = "-" THEN FloatOfUnsigned(Tail(b), -1)
        ELSE IF b[1] = "+" THEN FloatOfUnsigned(Tail(b), 1)
        ELSE FloatOfUnsigned(b, 1)

\* ------------------------------------------------------------------------
\* datetime values and datetime.strptime / strftime
\* ------------------------------------------------------------------------
Dt(ok, Y, mo, d, H, M, S) ==
    [ok |-> ok, Y |-> Y, mo |-> mo, d |-> d, H |-> H, M |-> M, S |-> S]

\* strptime raised ValueError
DtError == Dt(FALSE, 0, 0, 0, 0, 0, 0)

IsLeap(y) == (y % 4 = 0 /\ y % 100 # 0) \/ y % 400 = 0

DaysInMonth(y, mo) ==
    IF mo = 2 THEN (IF IsLeap(y) THEN 29 ELSE 28)
    ELSE IF mo \in {4, 6, 9, 11} THEN 30
    ELSE 31

\* '%Y-%m-%d %H:%M:%S'
FMT_SPACE == <<"%Y", "-", "%m", "-", "%d", " ", "%H", ":", "%M", ":", "%S">>

\* '%Y-%m-%dT%H:%M:%S'
FMT_ISO == <<"%Y", "-", "%m", "-", "%d", "T", "%H", ":", "%M", ":", "%S">>

\* the two-digit alternatives of a directive's pattern
TwoDigitOk(d, n) ==
    IF d = "%m" THEN n >= 1 /\ n <= 12
    ELSE IF d = "%d" THEN n >= 1 /\ n <= 31
    ELSE IF d = "%H" THEN n <= 23
    ELSE IF d = "%M" THEN n <= 59
    ELSE n <= 61

\* the one-digit alternative of a directive's pattern
OneDigitOk(d, n) == IF d \in {"%m", "%d"} THEN n >= 1 ELSE TRUE

SetField(acc, d, n) ==
    IF d = "%Y" THEN [acc EXCEPT !.Y = n]
    ELSE IF d = "%m" THEN [acc EXCEPT !.mo = n]
    ELSE IF d = "%d" THEN [acc EXCEPT !.d = n]
    ELSE IF d = "%H" THEN [acc EXCEPT !.H = n]
    ELSE IF d = "%M" THEN [acc EXCEPT !.M = n]
    ELSE [acc EXCEPT !.S = n]

RECURSIVE SkipSpaces(_, _)
\* position after the whitespace run that starts at si
SkipSpaces(s, si) ==
    IF si <= Len(s) /\ IsSpace(s[si]) THEN SkipSpaces(s, si + 1) ELSE si

RECURSIVE StrpMatch(_, _, _, _, _)
\* the match of the format's pattern against s, directive fi at position si
StrpMatch(fmt, s, fi, si, acc) ==
    IF fi > Len(fmt)
    THEN (IF si > Len(s) THEN acc ELSE DtError)  \* unconverted data remains
    ELSE
      LET d == fmt[fi] IN
      IF d = "%Y" THEN
          IF si + 3 <= Len(s) /\ AllDigits(SubSeq(s, si, si + 3))
          THEN StrpMatch(fmt, s, fi + 1, si + 4,
                         SetField(acc, d, NumOf(SubSeq(s, si, si + 3))))
          ELSE DtError
      ELSE IF d \in {"%m", "%d", "%H", "%M", "%S"} THEN
          LET has1 == si <= Len(s) /\ IsDigit(s[si])
              has2 == has1 /\ si + 1 <= Len(s) /\ IsDigit(s[si + 1])
              two  == IF has2
                      THEN (IF TwoDigitOk(d, NumOf(SubSeq(s, si, si + 1)))
                            THEN StrpMatch(fmt, s, fi + 1, si + 2,
                                   SetField(acc, d, NumOf(SubSeq(s, si, si + 1))))
                            ELSE DtError)
                      ELSE DtError
          IN  IF two.ok THEN two
              ELSE IF has1 /\ OneDigitOk(d, DigitVal(s[si]))
                   THEN StrpMatch(fmt, s, fi + 1, si + 1,
                                  SetField(acc, d, DigitVal(s[si])))
                   ELSE DtError
      ELSE IF d = " " THEN
          IF si <= Len(s) /\ IsSpace(s[si])
          THEN StrpMatch(fmt, s, fi + 1, SkipSpaces(s, si), acc)
          ELSE DtError
      ELSE
          IF si <= Len(s) /\ Lower(s[si]) = Lower(d)
          THEN StrpMatch(fmt, s, fi + 1, si + 1, acc)
          ELSE DtError

\* datetime.strptime(s, fmt): the match, then the datetime constructor's
\* range checks
strptime(s, fmt) ==
    LET r == StrpMatch(fmt, s, 1, 1, Dt(TRUE, 0, 0, 0, 0, 0, 0))
    IN  IF r.ok /\ r.Y >= 1 /\ r.S <= 59 /\ r.d <= DaysInMonth(r.Y, r.mo)
        THEN r ELSE DtError

Pad2(n) == <<DigitChars[(n \div 10) + 1], DigitChars[(n % 10) + 1]>>

Pad4(n) == Pad2(n \div 100) \o Pad2(n % 100)

\* strftime with the ISO separator, as dt.isoformat() would give
strftimeIso(dt) ==
    Pad4(dt.Y) \o <<"-">> \o Pad2(dt.mo) \o <<"-">> \o Pad2(dt.d) \o <<"T">>
        \o Pad2(dt.H) \o <<":">> \o Pad2(dt.M) \o <<":">> \o Pad2(dt.S)

\* dt.strftime('%Y-%m-%d %H:%M:%S')
strftime(dt) ==
    Pad4(dt.Y) \o <<"-">> \o Pad2(dt.mo) \o <<"-">> \o Pad2(dt.d) \o <<" ">>
        \o Pad2(dt.H) \o <<":">> \o Pad2(dt.M) \o <<":">> \o Pad2(dt.S)

\* ------------------------------------------------------------------------
\* Input texts
\* ------------------------------------------------------------------------
TS_SPACE == <<"2", "0", "2", "5", "-", "1", "2", "-", "0", "5", " ", "1", "2", ":", "3", "4", ":", "5", "6">>  \* '2025-12-05 12:34:56'

TS_ISO == <<"2", "0", "2", "5", "-", "1", "2", "-", "0", "5", "T", "1", "2", ":", "3", "4", ":", "5", "6">>  \* '2025-12-05T12:34:56'

TS_LEAP == <<"2", "0", "2", "4", "-", "0", "2", "-", "2", "9", "t", "0", "1", ":", "0", "2", ":", "0", "3">>  \* '2024-02-29t01:02:03'

TS_SHORT == <<"2", "0", "2", "4", "-", "2", "-", "2", "9", " ", " ", "1", ":", "2", ":", "3">>  \* '2024-2-29  1:2:3'

TS_FEB30 == <<"2", "0", "2", "5", "-", "0", "2", "-", "3", "0", " ", "1", "2", ":", "3", "4", ":", "5", "6">>  \* '2025-02-30 12:34:56'

TS_SLASH == <<"2", "0", "2", "5", "/", "1", "2", "/", "0", "5">>  \* '2025/12/05'

TS_TRAIL == <<"2", "0", "2", "5", "-", "1", "2", "-", "0", "5", " ", "1", "2", ":", "3", "4", ":", "5", "6", "7">>  \* '2025-12-05 12:34:567'

V_257 == <<"2", "5", ".", "7">>  \* '25.7'

V_NEG3 == <<" ", "-", "3", ".", "0", " ">>  \* ' -3.0 '

V_ABC == <<"a", "b", "c">>  \* 'abc'

V_NAN == <<"N", "a", "N">>  \* 'NaN'

V_2DOT == <<"1", ".", "2", ".", "3">>  \* '1.2.3'

V_SIGN == <<"-">>  \* '-'

\* ------------------------------------------------------------------------
\* Request inputs: a query parameter or a JSON member.  t = "absent": not
\* supplied; "str": text s; "num": JSON number f; "bool": JSON true/false
\* (f is 1 or 0); "null": JSON null.
\* ------------------------------------------------------------------------
Jv(t, s, f) == [t |-> t, s |-> s, f |-> f]

Absent == Jv("absent", <<>>, FloatError)

JStr(s) == Jv("str", s, FloatError)

JNum(m, e) == Jv("num", <<>>, Fl("fin", m, e))

JBool(b) == Jv("bool", <<>>, Fl("fin", IF b THEN 1 ELSE 0, 0))

JNull == Jv("null", <<>>, FloatError)

\* Python truth value of an input, as tested by 'if ts_str:' and 'if ts:'
Truthy(v) ==
    IF v.t = "str" THEN Len(v.s) > 0
    ELSE IF v.t \in {"num", "bool"} THEN v.f.m # 0
    ELSE FALSE

\* the texts that requests carry
ValueTexts == {<<>>, V_257, V_NEG3, V_ABC, V_NAN, V_2DOT, V_SIGN}

StampTexts == {<<>>, TS_SPACE, TS_ISO, TS_LEAP, TS_SHORT, TS_FEB30, TS_SLASH, TS_TRAIL}

\* float(str) of every value text, computed once
FloatTable == [s \in ValueTexts |-> FloatOfStr(s)]

\* float(x) inside 'try ... except (TypeError, ValueError)'
PyFloat(v) ==
    IF v.t = "str" THEN FloatTable[v.s]
    ELSE IF v.t \in {"num", "bool"} THEN v.f
    ELSE FloatError

\* the two strptime attempts of add_measurement_via_get
ParseTimestampGet(s) ==
    LET a == strptime(s, FMT_SPACE)
    IN  IF a.ok THEN a ELSE strptime(s, FMT_ISO)

\* ParseTimestampPost that tries the first format only
ParseTimestampPostFirstOnly(s) == strptime(s, FMT_SPACE)

\* the two strptime attempts of create_measurement
ParseTimestampPost(s) ==
    LET a == strptime(s, FMT_SPACE)
    IN  IF a.ok THEN a ELSE strptime(s, FMT_ISO)

GetStampTable == [s \in StampTexts |-> ParseTimestampGet(s)]

PostStampTable == [s \in StampTexts |-> ParseTimestampPost(s)]

\* ------------------------------------------------------------------------
\* The measurements table
\* ------------------------------------------------------------------------
Measurement(id, timestamp, value) ==
    [id |-> id, timestamp |-> timestamp, value |-> value]

MaxOf(S) == CHOOSE x \in S : \A y \in S : y <= x

\* NextRowId that counts the rows instead of taking the largest rowid
NextRowIdByCount(table) == Cardinality(table) + 1

\* the rowid SQLite gives to a new row of an INTEGER PRIMARY KEY column
\* declared without AUTOINCREMENT: one more than the largest rowid in use
NextRowId(table) ==
    IF table = {} THEN 1 ELSE MaxOf({r.id : r \in table}) + 1

\* db.session.add(m); db.session.commit().  A NaN is bound as NULL and the
\* NOT NULL constraint of the value column rejects it (IntegrityError).
Insert(table, timestamp, value) ==
    IF value.k = "nan"
    THEN [ok |-> FALSE, id |-> 0, table |-> table]
    ELSE [ok |-> TRUE, id |-> NextRowId(table),
          table |-> table \cup {Measurement(NextRowId(table), timestamp, value)}]

TsTuple(dt) == <<dt.Y, dt.mo, dt.d, dt.H, dt.M, dt.S>>

RECURSIVE LexLess(_, _)
LexLess(a, b) ==
    IF Len(a) = 0 THEN FALSE
    ELSE IF a[1] # b[1] THEN a[1] < b[1]
    ELSE LexLess(Tail(a), Tail(b))

\* order of the entries of ix_measurements_timestamp: (timestamp, rowid)
IndexLess(a, b) ==
    \/ LexLess(TsTuple(a.timestamp), TsTuple(b.timestamp))
    \/ a.timestamp = b.timestamp /\ a.id < b.id

RECURSIVE ScanAsc(_)
\* ORDER BY timestamp ASC: forward scan of the index
ScanAsc(table) ==
    IF table = {} THEN <<>>
    ELSE LET m == CHOOSE r \in table : \A o \in table : ~IndexLess(o, r)
         IN  <<m>> \o ScanAsc(table \ {m})

RECURSIVE ScanDescStable(_)
\* ScanDesc by a stable sort: timestamps descending, equal timestamps in
\* rowid order
ScanDescStable(table) ==
    IF table = {} THEN <<>>
    ELSE LET m == CHOOSE r \in table : \A o \in table :
                      \/ LexLess(TsTuple(o.timestamp), TsTuple(r.timestamp))
                      \/ o.timestamp = r.timestamp /\ r.id <= o.id
         IN  <<m>> \o ScanDescStable(table \ {m})

RECURSIVE ScanDesc(_)
\* ORDER BY timestamp DESC: backward scan of the index
ScanDesc(table) ==
    IF table = {} THEN <<>>
    ELSE LET m == CHOOSE r \in table : \A o \in table : ~IndexLess(r, o)
         IN  <<m>> \o ScanDesc(table \ {m})

\* SqlLimit that takes a negative n as zero rows
SqlLimitClamped(seq, n) ==
    IF n < 0 THEN <<>> ELSE IF n >= Len(seq) THEN seq ELSE SubSeq(seq, 1, n)

\* LIMIT n of SQLite: a negative n is no limit
SqlLimit(seq, n) ==
    IF n < 0 \/ n >= Len(seq) THEN seq ELSE SubSeq(seq, 1, n)

\* the JSON object of one row
Item(r) == [id |-> r.id, timestamp |-> strftime(r.timestamp), value |-> r.value]

\* ------------------------------------------------------------------------
\* Requests and responses
\* ------------------------------------------------------------------------
NoArg == [some |-> FALSE, n |-> 0, s |-> ""]

IntArg(n) == [some |-> TRUE, n |-> n, s |-> ""]

StrArg(s) == [some |-> TRUE, n |-> 0, s |-> s]

Rq(op, method, json_ok, value, timestamp, order, limit, id) ==
    [op |-> op, method |-> method, json_ok |-> json_ok, value |-> value,
     timestamp |-> timestamp, order |-> order, limit |-> limit, id |-> id]

AddRq(method, json_ok, value, timestamp) ==
    Rq("add", method, json_ok, value, timestamp, NoArg, NoArg, 0)

Rs(status, err, id, timestamp, value, items, removed) ==
    [status |-> status, err |-> err, id |-> id, timestamp |-> timestamp,
     value |-> value, items |-> items, removed |-> removed]

ErrorRs(status, err) == Rs(status, err, 0, <<>>, FloatError, <<>>, 0)

\* jsonify({"id": m.id, "timestamp": ..., "value": m.value}), 201
CreatedRs(id, timestamp, value) ==
    Rs(201, "none", id, strftime(timestamp), value, <<>>, 0)

\* add_measurement_via_get: the response and the table after the request
add_measurement_via_get(rq, now, table) ==
    IF rq.value.t = "absent"
    THEN [resp |-> ErrorRs(400, "missing_value"), table |-> table]
    ELSE IF PyFloat(rq.value).k = "err"
    THEN [resp |-> ErrorRs(400, "not_numeric"), table |-> table]
    ELSE IF Truthy(rq.timestamp) /\ ~GetStampTable[rq.timestamp.s].ok
    THEN [resp |-> ErrorRs(400, "bad_timestamp"), table |-> table]
    ELSE
      LET timestamp == IF Truthy(rq.timestamp)
                       THEN GetStampTable[rq.timestamp.s] ELSE now
          ins == Insert(table, timestamp, PyFloat(rq.value))
      IN  IF ins.ok
          THEN [resp |-> CreatedRs(ins.id, timestamp, PyFloat(rq.value)),
                table |-> ins.table]
          ELSE [resp |-> ErrorRs(500, "integrity_error"), table |-> table]

\* create_measurement: the response and the table after the request
create_measurement(rq, now, table) ==
    IF ~rq.json_ok \/ (rq.value.t = "absent" /\ rq.timestamp.t = "absent")
    THEN [resp |-> ErrorRs(400, "invalid_json"), table |-> table]
    ELSE IF rq.value.t = "absent"
    THEN [resp |-> ErrorRs(400, "missing_value"), table |-> table]
    ELSE IF PyFloat(rq.value).k = "err"
    THEN [resp |-> ErrorRs(400, "not_numeric"), table |-> table]
    ELSE IF Truthy(rq.timestamp) /\ rq.timestamp.t # "str"
    THEN [resp |-> ErrorRs(500, "type_error"), table |-> table]
    ELSE IF Truthy(rq.timestamp) /\ ~PostStampTable[rq.timestamp.s].ok
    THEN [resp |-> ErrorRs(400, "bad_timestamp"), table |-> table]
    ELSE
      LET timestamp == IF Truthy(rq.timestamp)
                       THEN PostStampTable[rq.timestamp.s] ELSE now
          ins == Insert(table, timestamp, PyFloat(rq.value))
      IN  IF ins.ok
          THEN [resp |-> CreatedRs(ins.id, timestamp, PyFloat(rq.value)),
                table |-> ins.table]
          ELSE [resp |-> ErrorRs(500, "integrity_error"), table |-> table]

\* list_measurements: the JSON array of the response
list_measurements(order, limit, table) ==
    LET ord  == IF order.some THEN order.s ELSE "asc"
        scan == IF ord = "desc" THEN ScanDesc(table) ELSE ScanAsc(table)
        got  == IF limit.some /\ limit.n # 0 THEN SqlLimit(scan, limit.n) ELSE scan
    IN  [i \in 1..Len(got) |-> Item(got[i])]

\* index: the labels and values handed to the template, as pairs
index(table) ==
    LET ms == ScanAsc(table)
    IN  [i \in 1..Len(ms) |->
            [id |-> 0, timestamp |-> strftime(ms[i].timestamp), value |-> ms[i].value]]

\* ------------------------------------------------------------------------
\* State
\* ------------------------------------------------------------------------
VARIABLES
    rows,        \* the committed rows of table 'measurements'
    pending,     \* per thread: the id whose row delete_measurement has
                 \* loaded with get_or_404 and not yet deleted; 0 when idle
    req,         \* the request answered last
    resp,        \* its response
    deletedIds   \* history: the ids that 'deleted' responses have carried

vars == <<rows, pending, req, resp, deletedIds>>

Init ==
    /\ rows = {}
    /\ pending = [t \in Threads |-> 0]
    /\ req = Rq("none", "", TRUE, Absent, Absent, NoArg, NoArg, 0)
    /\ resp = ErrorRs(0, "none")
    /\ deletedIds = {}

\* datetime.now() at the moment of a request
NowInstants == {Dt(TRUE, 2025, 6, 1, 0, 0, 0)}

AfterAdd(rq, out) ==
    /\ NextRowId(rows) <= MaxId
    /\ req' = rq
    /\ resp' = out.resp
    /\ rows' = out.table
    /\ UNCHANGED <<pending, deletedIds>>

\* GET /api/measurements/add
AddViaGet(value, timestamp, now) ==
    LET rq == AddRq("GET", TRUE, value, timestamp)
    IN  AfterAdd(rq, add_measurement_via_get(rq, now, rows))

\* POST /api/measurements
CreateMeasurement(json_ok, value, timestamp, now) ==
    LET rq == AddRq("POST", json_ok, value, timestamp)
    IN  AfterAdd(rq, create_measurement(rq, now, rows))

\* GET /api/measurements
ListMeasurements(order, limit) ==
    /\ req' = Rq("list", "GET", TRUE, Absent, Absent, order, limit, 0)
    /\ resp' = Rs(200, "none", 0, <<>>, FloatError,
                  list_measurements(order, limit, rows), 0)
    /\ UNCHANGED <<rows, pending, deletedIds>>

\* GET /
Index ==
    /\ req' = Rq("index", "GET", TRUE, Absent, Absent, NoArg, NoArg, 0)
    /\ resp' = Rs(200, "none", 0, <<>>, FloatError, index(rows), 0)
    /\ UNCHANGED <<rows, pending, deletedIds>>

\* DELETE /api/measurements/<id>, first step: Measurement.query.get_or_404(id)
DeleteLookup(t, id) ==
    /\ pending[t] = 0
    /\ IF \E r \in rows : r.id = id
       THEN /\ pending' = [pending EXCEPT ![t] = id]
            /\ UNCHANGED <<req, resp>>
       ELSE /\ req' = Rq("delete", "DELETE", TRUE, Absent, Absent, NoArg, NoArg, id)
            /\ resp' = ErrorRs(404, "not_found")
            /\ UNCHANGED pending
    /\ UNCHANGED <<rows, deletedIds>>

\* DELETE /api/measurements/<id>, second step: db.session.delete(m),
\* db.session.commit() and the response.  The DELETE statement removes the
\* rows whose id is m.id; matching no row is not an error.
DeleteCommit(t) ==
    /\ pending[t] # 0
    /\ LET id   == pending[t]
           gone == {r \in rows : r.id = id}
       IN  /\ rows' = rows \ gone
           /\ req' = Rq("delete", "DELETE", TRUE, Absent, Absent, NoArg, NoArg, id)
           /\ resp' = Rs(200, "deleted", id, <<>>, FloatError, <<>>, Cardinality(gone))
           /\ deletedIds' = deletedIds \cup {id}
    /\ pending' = [pending EXCEPT ![t] = 0]

OrderArgs == {NoArg, StrArg("desc"), StrArg("descending")}

LimitArgs == {NoArg} \cup {IntArg(n) : n \in -1..MaxId}

\* ------------------------------------------------------------------------
\* Spec: the store under concurrent requests
\* ------------------------------------------------------------------------
Next ==
    \/ \E v \in {JStr(V_257), JStr(V_NAN)}, now \in NowInstants :
           AddViaGet(v, Absent, now)
    \/ \E now \in NowInstants :
           CreateMeasurement(TRUE, JNum(-3, 0), JStr(TS_ISO), now)
    \/ ListMeasurements(NoArg, NoArg)
    \/ Index
    \/ \E t \in Threads, id \in 1..MaxId : DeleteLookup(t, id)
    \/ \E t \in Threads : DeleteCommit(t)

Spec == Init /\ [][Next]_vars

\* ------------------------------------------------------------------------
\* SpecList: listing over stores built by adds and deletes
\* ------------------------------------------------------------------------
NextList ==
    \/ \E ts \in {Absent, JStr(TS_ISO)}, now \in NowInstants :
           AddViaGet(JStr(V_257), ts, now)
    \/ \E o \in OrderArgs, l \in LimitArgs : ListMeasurements(o, l)
    \/ \E id \in 1..MaxId : DeleteLookup(1, id)
    \/ DeleteCommit(1)

SpecList == Init /\ [][NextList]_vars

\* ------------------------------------------------------------------------
\* SpecValidation: the two add routes over well-formed and malformed inputs
\* ------------------------------------------------------------------------
GetValues ==
    {Absent, JStr(<<>>), JStr(V_257), JStr(V_NEG3), JStr(V_ABC), JStr(V_NAN),
     JStr(V_2DOT), JStr(V_SIGN)}

GetStamps ==
    {Absent, JStr(<<>>), JStr(TS_SPACE), JStr(TS_ISO), JStr(TS_LEAP),
     JStr(TS_SHORT), JStr(TS_FEB30), JStr(TS_SLASH), JStr(TS_TRAIL)}

PostValues == GetValues \cup {JNum(257, 1), JBool(TRUE), JNull}

PostStamps == GetStamps \cup {JNum(5, 0), JBool(FALSE), JNull}

NextValidation ==
    \/ \E v \in GetValues, ts \in GetStamps, now \in NowInstants :
           AddViaGet(v, ts, now)
    \/ \E v \in PostValues, ts \in PostStamps, now \in NowInstants :
           CreateMeasurement(TRUE, v, ts, now)
    \/ \E now \in NowInstants : CreateMeasurement(FALSE, Absent, Absent, now)
    \/ ListMeasurements(NoArg, NoArg)

SpecValidation == Init /\ [][NextValidation]_vars

\* ------------------------------------------------------------------------
\* Properties
\* ------------------------------------------------------------------------
Reverse(seq) == [i \in 1..Len(seq) |-> seq[Len(seq) + 1 - i]]

Min(a, b) == IF a <= b THEN a ELSE b

\* Every id a 201 response has carried: a row leaves the table only through
\* DeleteCommit, which records the id.
IssuedIds == {r.id : r \in rows} \cup deletedIds

\* a step that answers a successful add
AddedStep == req'.op = "add" /\ resp'.status = 201 /\ rows' # rows

\* a step in which a thread finishes delete_measurement with its 200 response
DeleteCommitStep == \E t \in Threads : pending[t] # 0 /\ pending'[t] = 0

\* a step that answers a DELETE with 404
DeleteNotFoundStep ==
    /\ req'.op = "delete" /\ resp'.status = 404
    /\ \E t \in Threads : pending[t] = 0 /\ pending' = pending

\* C1: every successful add returns an id strictly greater than every id
\* returned by an earlier successful add, deleted rows included.
C1_IdsNeverReused ==
    [][AddedStep => \A i \in IssuedIds : resp'.id > i]_vars

\* C2: a DELETE of an absent id answers 404 and leaves the rows unchanged; a
\* DELETE of a present id answers 200, removes exactly one row, and no later
\* list ever returns a record with that id.
C2_DeleteContract ==
    /\ [][DeleteNotFoundStep => rows' = rows]_vars
    /\ [][DeleteCommitStep =>
            /\ resp'.status = 200
            /\ Cardinality(rows') = Cardinality(rows) - 1]_vars
    /\ [](req.op = "list" =>
            \A i \in 1..Len(resp.items) : resp.items[i].id \notin deletedIds)

\* texts that float() rejects
BadValueTexts == {<<>>, V_ABC, V_2DOT, V_SIGN}

\* an add request without a usable value
InvalidValue(rq) ==
    /\ rq.op = "add"
    /\ \/ rq.method = "POST" /\ ~rq.json_ok
       \/ rq.value.t \in {"absent", "null"}
       \/ rq.value.t = "str" /\ rq.value.s \in BadValueTexts

GoodStampTexts == {TS_SPACE, TS_ISO, TS_LEAP, TS_SHORT}

\* an add request with a usable value
ValidValue(rq) ==
    /\ rq.op = "add" /\ rq.json_ok
    /\ \/ rq.value.t = "str" /\ rq.value.s \in {V_257, V_NEG3}
       \/ rq.value.t \in {"num", "bool"}

\* C4: an add request whose timestamp is supplied (the empty text and JSON
\* values that are no text included) and is in neither accepted format is
\* answered 400 'invalid timestamp format' and leaves the rows unchanged.
C4_PresentBadTimestampRejected ==
    [][(/\ ValidValue(req')
        /\ req'.timestamp.t # "absent"
        /\ ~(req'.timestamp.t = "str" /\ req'.timestamp.s \in GoodStampTexts))
       => (resp'.status = 400 /\ resp'.err = "bad_timestamp" /\ rows' = rows)]_vars

\* the inputs both routes can carry: texts, or nothing
PairValues == GetValues

PairStamps == GetStamps

ViaGet(v, ts, now) == add_measurement_via_get(AddRq("GET", TRUE, v, ts), now, rows)

ViaPost(v, ts, now) == create_measurement(AddRq("POST", TRUE, v, ts), now, rows)

C7_LimitIsPrefix ==
    \A o \in OrderArgs, l \in LimitArgs :
        LET full == list_measurements(o, NoArg, rows)
            got  == list_measurements(o, l, rows)
        IN  /\ Len(full) = Cardinality(rows)
            /\ IF l.some /\ l.n > 0
               THEN /\ Len(got) = Min(l.n, Cardinality(rows))
                    /\ got = SubSeq(full, 1, Len(got))
               ELSE got = full

C7_Witness ==
    /\ req.op = "list" /\ req.order = StrArg("desc")
    /\ req.limit.some /\ req.limit.n > 0 /\ req.limit.n < Cardinality(rows)
    /\ Len(resp.items) = req.limit.n

TS_LEAP_CANON == <<"2", "0", "2", "4", "-", "0", "2", "-", "2", "9", " ", "0", "1", ":", "0", "2", ":", "0", "3">>  \* '2024-02-29 01:02:03'

\* the 'YYYY-MM-DD HH:MM:SS' text of the instant each accepted text names
Canonical(s) == IF s \in {TS_SPACE, TS_ISO} THEN TS_SPACE ELSE TS_LEAP_CANON

\* C8: after a successful add with a timestamp in either accepted format,
\* the response and the list carry, under the returned id, the canonical
\* 'YYYY-MM-DD HH:MM:SS' text of that instant.
C8_TimestampRoundTrip ==
    (/\ req.op = "add" /\ resp.status = 201
     /\ req.timestamp.t = "str" /\ req.timestamp.s \in GoodStampTexts)
    => /\ resp.timestamp = Canonical(req.timestamp.s)
       /\ \E i \in 1..Cardinality(rows) :
            /\ list_measurements(NoArg, NoArg, rows)[i].id = resp.id
            /\ list_measurements(NoArg, NoArg, rows)[i].timestamp
                   = Canonical(req.timestamp.s)

C8_Witness ==
    /\ req.op = "add" /\ resp.status = 201
    /\ req.timestamp.t = "str" /\ req.timestamp.s = TS_SHORT
    /\ \E r \in rows : r.id # resp.id /\ strftime(r.timestamp) = TS_SPACE

\* C9: the stored rows have pairwise distinct ids, a timestamp and a value
\* that are not NULL, and a row never changes while it is stored.
C9_RowsWellFormed ==
    /\ [](\A r1 \in rows, r2 \in rows : r1.id = r2.id => r1 = r2)
    /\ [](\A r \in rows : r.timestamp.ok /\ r.value.k \in {"fin", "inf"})
    /\ [][\A r1 \in rows, r2 \in rows' : r1.id = r2.id => r1 = r2]_vars

C9_Witness ==
    /\ Cardinality(rows) >= 2
    /\ deletedIds # {}
    /\ \E t \in Threads : pending[t] # 0
    /\ req.op = "add" /\ resp.status = 201

\* C10: a DELETE answers 'deleted' only for a row that this request removed.
C10_DeletedOnlyByRemover ==
    (req.op = "delete" /\ resp.status = 200) => resp.removed = 1
====
